---- MODULE Spec2Model ----
(***************************************************************************)
(* A model of SQLite.hpp: Connection and Statement, two move-only owners   *)
(* of a native sqlite3 handle built on Handle<Traits> (Handle.hpp), and    *)
(* the native entry points they call.  Native handles are numbered from 1  *)
(* in allocation order; 0 is the sentinel (nullptr).                       *)
(*                                                                         *)
(* Every operation is one action.  What it does is computed by an operator *)
(* <Operation>Run from the state and the inputs, as a record: the new      *)
(* values of the state it writes, its outcome (return, throw or abort),    *)
(* the failure it raises and the calls it makes, in order.  The action     *)
(* installs the new state.                                                 *)
(***************************************************************************)
EXTENDS Integers, Sequences, FiniteSets, TLC

\* ---------------------------------------------------------------- bounds
NumConn == 2       \* Connection objects of the caller
NumStmt == 2       \* Statement objects of the caller
MaxDb == 2         \* native connection handles the engine hands out
MaxSt == 2         \* native statement handles the engine hands out
MaxRows == 1       \* rows a compiled plan yields at most
MaxPlans == 4      \* statement handles handed out in the scenario runs
MaxStored == 2     \* rows stored in table t at most

\* Returns of Step() recorded per native statement: every row, then done.
MaxSteps == MaxRows + 1

ConnObjs == 1..NumConn
StmtObjs == 1..NumStmt
DbHandles == 1..MaxDb
StHandles == 1..MaxSt

\* HandleTraits<T>::Invalid(): the sentinel, nullptr for both pointer types.
Invalid == 0

VARIABLES
    NDEBUG,   \* whether the build defines NDEBUG (fixed over a run)
    conn,     \* conn[c]: [live, h], Connection object c and its m_handle
    stmt,     \* stmt[s]: [live, h], Statement object s and its m_handle
    pc,       \* "idle" between operations, "aborted" once an assert stopped the program
    db,       \* db[h]: native connection h: last error, releases, closes
    dbAlloc,  \* native connection handles handed out so far
    st,       \* st[h]: native statement h: owner, plan, position, counters
    stAlloc,  \* native statement handles handed out so far
    tables    \* tables[h]: the table t of the database behind connection h

vars == <<NDEBUG, conn, stmt, pc, db, dbAlloc, st, stAlloc, tables>>

\* ------------------------------------------------------ the assert macro
\* #ifdef NDEBUG  #define assert(condition) ((void)0)
\* #else          #define assert(condition) /*implementation defined*/
\* The replacement list of either branch does not mention `condition`: the
\* argument expression is dropped by the preprocessor and never evaluated.
AssertExpansion(ndebug) ==
    IF ndebug
    THEN [text |-> "((void)0)", usesCondition |-> FALSE]
    ELSE [text |-> "", usesCondition |-> FALSE]

\* Whether assert(e) evaluates e: only if the expansion names the parameter.
AssertEvaluates(ndebug) ==
    AssertExpansion(ndebug).usesCondition

\* ------------------------------------------------- the native engine
\* sqlite3_extended_errcode / sqlite3_errmsg: the last error of a connection.
\* Both accept a null connection and report out-of-memory for it.
sqlite3_extended_errcode(d, h) ==
    IF h = Invalid THEN "SQLITE_NOMEM" ELSE d[h].err

ErrStr(code) ==
    CASE code = "SQLITE_OK" -> "not an error"
      [] code = "SQLITE_NOMEM" -> "out of memory"
      [] code = "SQLITE_CANTOPEN" -> "unable to open database file"
      [] code = "SQLITE_ERROR" -> "SQL logic error"
      [] code = "SQLITE_BUSY" -> "database is locked"
      [] code = "SQLITE_MISUSE" -> "bad parameter or other API misuse"
      [] OTHER -> "unknown error"

sqlite3_errmsg(d, h) ==
    ErrStr(sqlite3_extended_errcode(d, h))

\* sqlite3_db_handle: the connection a statement was prepared on; null for a
\* null statement.
sqlite3_db_handle(s, h) ==
    IF h = Invalid THEN Invalid ELSE s[h].db

\* struct Exception: a snapshot of code and message of one connection handle.
\* `from` records which handle the snapshot was read from.
Exception(d, h) ==
    [Result |-> sqlite3_extended_errcode(d, h),
     Message |-> sqlite3_errmsg(d, h),
     from |-> h]

NoExc == [Result |-> "none", Message |-> "", from |-> Invalid]

\* The database behind a fresh connection: table t does not exist.  rows is
\* the column x of the rows stored in t, in insertion order.
NoTable == [exists |-> FALSE, rows |-> <<>>]

\* ------------------------------------------------- calls made
\* One call made by an operation: the function, the handle passed to it and
\* the handle it wrote or returned (Invalid when it has none).
Ev(f, h, out) == [f |-> f, h |-> h, out |-> out]

\* What reading an Exception off handle h calls, in the order of the member
\* initialisers (Result, then Message).
ExceptionCalls(h) ==
    <<Ev("sqlite3_extended_errcode", h, Invalid), Ev("sqlite3_errmsg", h, Invalid)>>

\* ------------------------------------------------- the release policies
\* ConnectionHandleTraits::Close: assert(SQLITE_OK == sqlite3_close(value)).
\* The call to sqlite3_close is the assert's argument.
ConnectionHandleTraits_Close(h) ==
    <<Ev("ConnectionHandleTraits::Close", h, Invalid)>>
    \o (IF AssertEvaluates(NDEBUG) THEN <<Ev("sqlite3_close", h, Invalid)>> ELSE <<>>)

\* StatementHandleTraits::Close: assert(SQLITE_OK == sqlite3_finalize(value)).
StatementHandleTraits_Close(h) ==
    <<Ev("StatementHandleTraits::Close", h, Invalid)>>
    \o (IF AssertEvaluates(NDEBUG) THEN <<Ev("sqlite3_finalize", h, Invalid)>> ELSE <<>>)

\* The counters of the connection handles after the calls of one operation:
\* released counts the invocations of the release action on a value,
\* closeCalls the calls of sqlite3_close on it.
RECURSIVE ApplyDb(_, _)
ApplyDb(d, calls) ==
    IF calls = <<>> THEN d
    ELSE LET e == Head(calls)
             d1 == CASE e.f = "ConnectionHandleTraits::Close" ->
                           [d EXCEPT ![e.h].released = @ + 1]
                      [] e.f = "sqlite3_close" ->
                           [d EXCEPT ![e.h].closeCalls = @ + 1]
                      [] OTHER -> d
         IN ApplyDb(d1, Tail(calls))

\* The same for the statement handles.  A released statement handle has no
\* owner left that could step or read it: its plan, position, step record
\* and back-reference leave the state with it.
\* What stepping a plan to its end does to the database: nothing (a query),
\* or the creation of table t, or the insertion of val into it.
NoEffect == [kind |-> "none", val |-> 0]

RECURSIVE ApplySt(_, _)
ApplySt(t, calls) ==
    IF calls = <<>> THEN t
    ELSE LET e == Head(calls)
             t1 == CASE e.f = "StatementHandleTraits::Close" ->
                           [t EXCEPT ![e.h].released = @ + 1, ![e.h].rows = 0,
                                     ![e.h].pos = 0, ![e.h].log = <<>>,
                                     ![e.h].db = Invalid, ![e.h].vals = <<>>,
                                     ![e.h].effect = NoEffect]
                      [] e.f = "sqlite3_finalize" ->
                           [t EXCEPT ![e.h].finalizeCalls = @ + 1]
                      [] OTHER -> t
         IN ApplySt(t1, Tail(calls))

\* ------------------------------------------------- Handle<Traits>
\* Handle::Close(), used by ~Handle, Set() and move assignment: a non-empty
\* handle invokes the policy's release action once; an empty one does nothing.
\* release: the calls Traits::Close(h) makes.
Handle_Close(h, release) ==
    IF h # Invalid THEN release ELSE <<>>

\* explicit operator bool: true iff not empty.
Handle_bool(h) == h # Invalid

\* Get(): the owned value, ownership kept.
Handle_Get(h) == h

\* swap(left, right): the two values exchanged.
Handle_swap(left, right) == <<right, left>>

\* Handle(Handle && other): <<this, other>> after the move; the source is
\* left empty.
Handle_MoveConstruct(other) == <<other, Invalid>>

\* ~Handle and the slot of Set(): the value is cleared after the release.
Handle_Cleared == Invalid

Dead == [live |-> FALSE, h |-> Invalid]
Empty == [live |-> TRUE, h |-> Invalid]

\* Objects are interchangeable: a new one takes the lowest free place.
FirstDead(objs) ==
    LET dead == {i \in DOMAIN objs : ~objs[i].live}
    IN IF dead = {} THEN 0 ELSE CHOOSE i \in dead : \A j \in dead : i <= j

\* ------------------------------------------------- Connection
\* A variant of Connection_bool with a slip in it: every Connection that
\* exists counts as open.
Connection_bool_Live(c) == conn[c].live

\* explicit operator bool
Connection_bool(c) == Handle_bool(conn[c].h)

\* GetAbi
Connection_GetAbi(c) == Handle_Get(conn[c].h)

\* The native open entry point (sqlite3_open, sqlite3_open16): success with a
\* fresh handle, failure with a fresh handle that carries the error, or
\* failure with no handle at all (out of memory).
OpenOutcomes ==
    {[rc |-> "SQLITE_OK", alloc |-> TRUE],
     [rc |-> "SQLITE_CANTOPEN", alloc |-> TRUE],
     [rc |-> "SQLITE_NOMEM", alloc |-> FALSE]}

\* The two overloads of Open and what each hands to InternalOpen as F.
OpenFns == {"sqlite3_open", "sqlite3_open16"}

\* Variants of InternalOpenSwap with a slip in them.
\* The new handle is assigned to `this` and what `this` owned is dropped.
InternalOpenSwap_Steal(rc, thisH, tempH) ==
    IF rc # "SQLITE_OK" THEN <<thisH, tempH>> ELSE <<tempH, Invalid>>

\* The new handle is copied to `this` and temp keeps it.
InternalOpenSwap_Copy(rc, thisH, tempH) ==
    IF rc # "SQLITE_OK" THEN <<thisH, tempH>> ELSE <<tempH, tempH>>

\* The swap is done before the native result is tested.
InternalOpenSwap_Early(rc, thisH, tempH) ==
    Handle_swap(thisH, tempH)

\* InternalOpen, lines 49-54: what `this` and temp own after the test of the
\* native result and the swap: <<this, temp>>.
InternalOpenSwap(rc, thisH, tempH) ==
    IF rc # "SQLITE_OK" THEN <<thisH, tempH>> ELSE Handle_swap(thisH, tempH)

\* A variant of Connection_ThrowLastError with a slip in it: the failure is
\* built without the handle.
Connection_ThrowLastError_Null(d, h) ==
    Exception(d, Invalid)

\* Connection::ThrowLastError: throw Exception(GetAbi()).
Connection_ThrowLastError(d, h) ==
    Exception(d, Handle_Get(h))

\* Connection::Open(filename) on object c through InternalOpen(fn, filename):
\* `Connection temp`; fn(filename, temp.m_handle.Set()); on a non-success
\* result temp.ThrowLastError(); else swap(m_handle, temp.m_handle); temp's
\* scope ends on return and on unwinding alike.  With ctor this is
\* Connection(filename), and so Memory() and WideMemory(), on a new object:
\* a constructor that throws destroys the members of its object.
\* this, temp: what the two own when temp's scope ends.
OpenRun(c, ctor, fn, o) ==
    LET thisH == conn[c].h
        setCalls == Handle_Close(Empty.h, ConnectionHandleTraits_Close(Empty.h))
        hnew == IF o.alloc THEN dbAlloc + 1 ELSE Invalid
        d1 == IF o.alloc THEN [db EXCEPT ![hnew].err = o.rc] ELSE db
        thrown == o.rc # "SQLITE_OK"
        r == InternalOpenSwap(o.rc, thisH, hnew)
        gone == thrown /\ ctor
        calls == setCalls \o <<Ev(fn, Invalid, hnew)>>
                 \o (IF thrown THEN ExceptionCalls(hnew) ELSE <<>>)
                 \o Handle_Close(r[2], ConnectionHandleTraits_Close(r[2]))
                 \o (IF gone
                     THEN Handle_Close(r[1], ConnectionHandleTraits_Close(r[1]))
                     ELSE <<>>)
    IN [conn |-> [conn EXCEPT ![c] = IF gone THEN Dead
                                     ELSE [live |-> TRUE, h |-> r[1]]],
        db |-> ApplyDb(d1, calls),
        dbAlloc |-> IF o.alloc THEN hnew ELSE dbAlloc,
        result |-> IF thrown THEN "throw" ELSE "return",
        exc |-> IF thrown THEN Connection_ThrowLastError(d1, hnew) ELSE NoExc,
        opened |-> hnew, this |-> r[1], temp |-> r[2], calls |-> calls]

OpenEnabled(c, ctor, o) ==
    /\ pc = "idle"
    /\ conn[c].live = ~ctor
    /\ ctor => c = FirstDead(conn)
    /\ o.alloc => dbAlloc < MaxDb

Open(c, ctor, fn, o) ==
    /\ OpenEnabled(c, ctor, o)
    /\ LET r == OpenRun(c, ctor, fn, o)
       IN /\ conn' = r.conn
          /\ db' = r.db
          /\ dbAlloc' = r.dbAlloc
    /\ UNCHANGED <<NDEBUG, tables, stmt, pc, st, stAlloc>>

\* Connection() noexcept = default
ConnDefault(c) ==
    /\ pc = "idle"
    /\ c = FirstDead(conn)
    /\ conn' = [conn EXCEPT ![c] = Empty]
    /\ UNCHANGED <<NDEBUG, tables, stmt, pc, db, dbAlloc, st, stAlloc>>

\* ~Connection: the member m_handle is destroyed.
ConnDestroy(c) ==
    /\ pc = "idle"
    /\ conn[c].live
    /\ db' = ApplyDb(db, Handle_Close(conn[c].h, ConnectionHandleTraits_Close(conn[c].h)))
    /\ conn' = [conn EXCEPT ![c] = [live |-> FALSE, h |-> Handle_Cleared]]
    /\ UNCHANGED <<NDEBUG, tables, stmt, pc, dbAlloc, st, stAlloc>>

\* Connection(Connection &&), implicitly declared: m_handle is move-constructed.
ConnMoveConstruct(dst, src) ==
    /\ pc = "idle"
    /\ dst = FirstDead(conn)
    /\ conn[src].live
    /\ LET r == Handle_MoveConstruct(conn[src].h)
       IN conn' = [conn EXCEPT ![dst] = [live |-> TRUE, h |-> r[1]],
                               ![src].h = r[2]]
    /\ UNCHANGED <<NDEBUG, tables, stmt, pc, db, dbAlloc, st, stAlloc>>

\* Connection & operator=(Connection &&), implicitly declared: m_handle is
\* move-assigned: what dst owned is released, then the value is transferred.
ConnMoveAssign(dst, src) ==
    /\ pc = "idle"
    /\ dst # src
    /\ conn[dst].live
    /\ conn[src].live
    /\ db' = ApplyDb(db, Handle_Close(conn[dst].h, ConnectionHandleTraits_Close(conn[dst].h)))
    /\ LET r == Handle_MoveConstruct(conn[src].h)
       IN conn' = [conn EXCEPT ![dst].h = r[1], ![src].h = r[2]]
    /\ UNCHANGED <<NDEBUG, tables, stmt, pc, dbAlloc, st, stAlloc>>

\* swap of the handles of two Connections.
ConnSwap(a, b) ==
    /\ pc = "idle"
    /\ a < b
    /\ conn[a].live
    /\ conn[b].live
    /\ LET r == Handle_swap(conn[a].h, conn[b].h)
       IN conn' = [conn EXCEPT ![a].h = r[1], ![b].h = r[2]]
    /\ UNCHANGED <<NDEBUG, tables, stmt, pc, db, dbAlloc, st, stAlloc>>

\* ------------------------------------------------- Statement
\* explicit operator bool
Statement_bool(s) == Handle_bool(stmt[s].h)

\* GetAbi
Statement_GetAbi(s) == Handle_Get(stmt[s].h)

\* Statement() noexcept = default
StmtDefault(s) ==
    /\ pc = "idle"
    /\ s = FirstDead(stmt)
    /\ stmt' = [stmt EXCEPT ![s] = Empty]
    /\ UNCHANGED <<NDEBUG, tables, conn, pc, db, dbAlloc, st, stAlloc>>

\* ~Statement: the member m_handle is destroyed.
StmtDestroy(s) ==
    /\ pc = "idle"
    /\ stmt[s].live
    /\ st' = ApplySt(st, Handle_Close(stmt[s].h, StatementHandleTraits_Close(stmt[s].h)))
    /\ stmt' = [stmt EXCEPT ![s] = [live |-> FALSE, h |-> Handle_Cleared]]
    /\ UNCHANGED <<NDEBUG, tables, conn, pc, db, dbAlloc, stAlloc>>

\* Statement(Statement &&), implicitly declared.
StmtMoveConstruct(dst, src) ==
    /\ pc = "idle"
    /\ dst = FirstDead(stmt)
    /\ stmt[src].live
    /\ LET r == Handle_MoveConstruct(stmt[src].h)
       IN stmt' = [stmt EXCEPT ![dst] = [live |-> TRUE, h |-> r[1]],
                               ![src].h = r[2]]
    /\ UNCHANGED <<NDEBUG, tables, conn, pc, db, dbAlloc, st, stAlloc>>

\* Statement & operator=(Statement &&), implicitly declared.
StmtMoveAssign(dst, src) ==
    /\ pc = "idle"
    /\ dst # src
    /\ stmt[dst].live
    /\ stmt[src].live
    /\ st' = ApplySt(st, Handle_Close(stmt[dst].h, StatementHandleTraits_Close(stmt[dst].h)))
    /\ LET r == Handle_MoveConstruct(stmt[src].h)
       IN stmt' = [stmt EXCEPT ![dst].h = r[1], ![src].h = r[2]]
    /\ UNCHANGED <<NDEBUG, tables, conn, pc, db, dbAlloc, stAlloc>>

\* The native prepare entry point (sqlite3_prepare_v2, sqlite3_prepare16_v2)
\* on connection handle dbh.  It clears the slot first; a null connection is
\* refused as misuse; SQL text with no statement in it succeeds and leaves the
\* slot null; a compile error leaves the slot null.
\* vals: column 0 of the rows of the plan, one value per row; effect: what
\* the plan does to the database.  A query over arbitrary data is taken to
\* yield 10, 20, ... : every row differs from the one before it.
PlanRows(n) == [k \in 1..n |-> 10 * k]

NoPlan(rc) ==
    [rc |-> rc, alloc |-> FALSE, rows |-> 0, vals |-> <<>>, effect |-> NoEffect]

PrepareOutcomes(dbh) ==
    IF dbh = Invalid
    THEN {NoPlan("SQLITE_MISUSE")}
    ELSE {[rc |-> "SQLITE_OK", alloc |-> TRUE, rows |-> n, vals |-> PlanRows(n),
           effect |-> NoEffect] : n \in 0..MaxRows}
         \cup {NoPlan("SQLITE_OK"), NoPlan("SQLITE_ERROR")}

\* The two overloads of Prepare and what each hands to InternalPrepare as F.
PrepareFns == {"sqlite3_prepare_v2", "sqlite3_prepare16_v2"}

\* InternalPrepare, line 176: assert(connection): whether the operation is
\* stopped there, given the Connection's boolean state.
InternalPrepareStopped(open) ==
    AssertEvaluates(NDEBUG) /\ ~open

\* A variant of InternalPrepareErrorSource with a slip in it: the Statement's
\* own ThrowLastError() is called.
InternalPrepareErrorSource_Statement(connH, stmtOwnerH) ==
    stmtOwnerH

\* InternalPrepare, line 180: connection.ThrowLastError(): the handle the
\* failure is read from, of the Connection's and the Statement's owner.
InternalPrepareErrorSource(connH, stmtOwnerH) ==
    connH

\* Statement::Prepare(connection, text) on object s through
\* InternalPrepare(connection, fn, text): assert(connection); m_handle.Set()
\* releases what the Statement owns and clears it; the native call writes
\* the slot; a non-success result raises.
PrepareRun(s, c, fn, o) ==
    IF InternalPrepareStopped(Connection_bool(c))
    THEN [stmt |-> stmt, st |-> st, stAlloc |-> stAlloc, db |-> db,
          pc |-> "aborted", result |-> "abort", exc |-> NoExc, calls |-> <<>>]
    ELSE LET dbh == Connection_GetAbi(c)
             setCalls == Handle_Close(stmt[s].h, StatementHandleTraits_Close(stmt[s].h))
             hnew == IF o.alloc THEN stAlloc + 1 ELSE Invalid
             d1 == IF dbh = Invalid THEN db ELSE [db EXCEPT ![dbh].err = o.rc]
             t1 == IF o.alloc
                   THEN [st EXCEPT ![hnew].db = dbh, ![hnew].rows = o.rows,
                                   ![hnew].vals = o.vals,
                                   ![hnew].effect = o.effect]
                   ELSE st
             thrown == o.rc # "SQLITE_OK"
             src == InternalPrepareErrorSource(dbh, sqlite3_db_handle(t1, hnew))
             calls == setCalls \o <<Ev(fn, dbh, hnew)>>
                      \o (IF thrown THEN ExceptionCalls(src) ELSE <<>>)
         IN [stmt |-> [stmt EXCEPT ![s].h = hnew],
             st |-> ApplySt(t1, calls),
             stAlloc |-> IF o.alloc THEN hnew ELSE stAlloc,
             db |-> d1,
             pc |-> "idle",
             result |-> IF thrown THEN "throw" ELSE "return",
             exc |-> IF thrown THEN Exception(d1, src) ELSE NoExc,
             calls |-> calls]

PrepareEnabled(s, c, o) ==
    /\ pc = "idle"
    /\ stmt[s].live
    /\ conn[c].live
    /\ o \in PrepareOutcomes(Connection_GetAbi(c))
    /\ o.alloc => stAlloc < MaxSt

Prepare(s, c, fn, o) ==
    /\ PrepareEnabled(s, c, o)
    /\ LET r == PrepareRun(s, c, fn, o)
       IN /\ stmt' = r.stmt
          /\ st' = r.st
          /\ stAlloc' = r.stAlloc
          /\ db' = r.db
          /\ pc' = r.pc
    /\ UNCHANGED <<NDEBUG, tables, conn, dbAlloc>>

\* The native step entry point on statement handle h: the next row or done
\* as the plan has it, or busy; a null statement is refused as misuse.
StepCodes(t, h) ==
    IF h = Invalid
    THEN {"SQLITE_MISUSE"}
    ELSE {IF t[h].pos < t[h].rows THEN "SQLITE_ROW" ELSE "SQLITE_DONE",
          "SQLITE_BUSY"}

\* sqlite3_step: the position of the plan after a step with result rc.  After
\* done the next step starts the plan again; busy leaves it where it was.
sqlite3_step(t, h, rc) ==
    IF h = Invalid THEN t
    ELSE [t EXCEPT ![h].pos = CASE rc = "SQLITE_ROW" -> @ + 1
                                [] rc = "SQLITE_BUSY" -> @
                                [] OTHER -> 0]

\* Variants of StepResult with a slip in them.
\* Busy is taken for the end of the rows.
StepResult_BusyIsDone(rc) ==
    IF rc = "SQLITE_ROW" THEN "true"
    ELSE IF rc \in {"SQLITE_DONE", "SQLITE_BUSY"} THEN "false"
    ELSE "throw"

\* The two returns are exchanged.
StepResult_Inverted(rc) ==
    IF rc = "SQLITE_ROW" THEN "false"
    ELSE IF rc = "SQLITE_DONE" THEN "true"
    ELSE "throw"

\* Statement::Step, lines 226-238: the result code mapped to the outcome.
StepResult(rc) ==
    IF rc = "SQLITE_ROW" THEN "true"
    ELSE IF rc = "SQLITE_DONE" THEN "false"
    ELSE "throw"

\* Statement::ThrowLastError: throw Exception(sqlite3_db_handle(GetAbi())):
\* the handle the failure is read from.
Statement_ErrorSource(t, stmtH) ==
    sqlite3_db_handle(t, Handle_Get(stmtH))

\* Statement::Step on s when the native step answers rc: line 224 calls
\* sqlite3_step once; row and done return, anything else goes to
\* ThrowLastError.  log is the record of the values Step returned on a
\* native statement.
StepRun(s, rc) ==
    LET h == Statement_GetAbi(s)
        res == StepResult(rc)
        src == Statement_ErrorSource(st, stmt[s].h)
        owner == sqlite3_db_handle(st, h)
        d1 == IF owner # Invalid /\ rc \notin {"SQLITE_ROW", "SQLITE_DONE"}
              THEN [db EXCEPT ![owner].err = rc]
              ELSE db
        t1 == sqlite3_step(st, h, rc)
        t2 == IF h = Invalid \/ res = "throw" THEN t1
              ELSE [t1 EXCEPT ![h].log = Append(@, res)]
    IN [db |-> d1, st |-> t2, pc |-> "idle", result |-> res,
        exc |-> IF res = "throw" THEN Exception(d1, src) ELSE NoExc,
        calls |-> <<Ev("sqlite3_step", h, Invalid)>>
                  \o (IF res = "throw"
                      THEN <<Ev("sqlite3_db_handle", h, src)>> \o ExceptionCalls(src)
                      ELSE <<>>)]

\* Whether one more return of Step on s is recorded.
CanStep(s) ==
    Statement_GetAbi(s) # Invalid => Len(st[Statement_GetAbi(s)].log) < MaxSteps

StepEnabled(s, rc) ==
    /\ pc = "idle"
    /\ stmt[s].live
    /\ rc \in StepCodes(st, Statement_GetAbi(s))
    /\ CanStep(s) \/ StepResult(rc) = "throw"

\* bool Statement::Step() const
Step(s, rc) ==
    /\ StepEnabled(s, rc)
    /\ LET r == StepRun(s, rc)
       IN /\ db' = r.db
          /\ st' = r.st
    /\ UNCHANGED <<NDEBUG, tables, conn, stmt, pc, dbAlloc, stAlloc>>

\* Statement::Execute, line 243: assert(!Step()): whether the body
\* evaluates Step().
ExecuteCallsStep ==
    AssertEvaluates(NDEBUG)

\* void Statement::Execute() const, when the native step would answer rc.
\* A Step that returns true fails the assert.
ExecuteRun(s, rc) ==
    IF ExecuteCallsStep
    THEN LET r == StepRun(s, rc)
         IN [db |-> r.db, st |-> r.st,
             pc |-> IF r.result = "true" THEN "aborted" ELSE "idle",
             result |-> CASE r.result = "throw" -> "throw"
                          [] r.result = "true" -> "abort"
                          [] OTHER -> "return",
             exc |-> r.exc, calls |-> r.calls]
    ELSE [db |-> db, st |-> st, pc |-> "idle", result |-> "return",
          exc |-> NoExc, calls |-> <<>>]

Execute(s, rc) ==
    /\ StepEnabled(s, rc)
    /\ LET r == ExecuteRun(s, rc)
       IN /\ db' = r.db
          /\ st' = r.st
          /\ pc' = r.pc
    /\ UNCHANGED <<NDEBUG, tables, conn, stmt, dbAlloc, stAlloc>>

\* ------------------------------------------------- Reader<Statement>
\* The engine's column entry points on statement handle h.  The current row
\* is the one the last step made available; with no current row (or a null
\* statement) the engine answers its NULL value: 0, a null text, length 0.
HasRow(t, h) ==
    h # Invalid /\ t[h].pos >= 1 /\ t[h].pos <= Len(t[h].vals)

\* Column col of the current row: column 0 is the plan's value for the row,
\* every further column differs from it.
sqlite3_column_int(t, h, col) ==
    IF HasRow(t, h) THEN t[h].vals[t[h].pos] + col ELSE 0

NullText == [enc |-> "null", of |-> 0]

\* The value rendered as text, narrow and wide.
sqlite3_column_text(t, h, col) ==
    IF HasRow(t, h) THEN [enc |-> "utf8", of |-> sqlite3_column_int(t, h, col)]
    ELSE NullText

sqlite3_column_text16(t, h, col) ==
    IF HasRow(t, h) THEN [enc |-> "utf16", of |-> sqlite3_column_int(t, h, col)]
    ELSE NullText

\* The decimal digits of a value: one byte each in utf8, two in utf16.
Digits(v) == IF v < 10 THEN 1 ELSE IF v < 100 THEN 2 ELSE 3

sqlite3_column_bytes(t, h, col) ==
    IF HasRow(t, h) THEN Digits(sqlite3_column_int(t, h, col)) ELSE 0

sqlite3_column_bytes16(t, h, col) ==
    2 * sqlite3_column_bytes(t, h, col)

\* sizeof(wchar_t) of the build.
WCharSizes == {2, 4}

ReaderFns ==
    {"GetInt", "GetString", "GetWideString", "GetStringLength", "GetWideStringLength"}

Columns == {0, 1}

\* The native entry point each reader calls.
ReaderNative(fn) ==
    CASE fn = "GetInt" -> "sqlite3_column_int"
      [] fn = "GetString" -> "sqlite3_column_text"
      [] fn = "GetWideString" -> "sqlite3_column_text16"
      [] fn = "GetStringLength" -> "sqlite3_column_bytes"
      [] fn = "GetWideStringLength" -> "sqlite3_column_bytes16"

\* A variant of ReaderColumn with a slip in it: the default is passed on.
ReaderColumn_Default(column) == 0

\* The column a reader hands to the native entry point: its own argument.
ReaderColumn(column) == column

\* What a reader returns for the native answers on handle h: GetInt and
\* GetStringLength pass the answer on, GetString and GetWideString cast the
\* pointer, GetWideStringLength divides the byte length by sizeof(wchar_t).
ReaderValue(t, h, fn, col, w) ==
    CASE fn = "GetInt" -> sqlite3_column_int(t, h, col)
      [] fn = "GetString" -> sqlite3_column_text(t, h, col)
      [] fn = "GetWideString" -> sqlite3_column_text16(t, h, col)
      [] fn = "GetStringLength" -> sqlite3_column_bytes(t, h, col)
      [] fn = "GetWideStringLength" -> sqlite3_column_bytes16(t, h, col) \div w

\* A reader call on Statement s: one native call on GetAbi(); nothing is
\* kept, nothing is written.
ReaderRun(s, fn, column, w) ==
    LET h == Statement_GetAbi(s)
        col == ReaderColumn(column)
    IN [stmt |-> stmt, st |-> st, result |-> "return",
        value |-> ReaderValue(st, h, fn, col, w),
        calls |-> <<Ev(ReaderNative(fn), h, col)>>]

ReaderEnabled(s) ==
    /\ pc = "idle"
    /\ stmt[s].live

Reader(s, fn, column, w) ==
    /\ ReaderEnabled(s)
    /\ LET r == ReaderRun(s, fn, column, w)
       IN /\ stmt' = r.stmt
          /\ st' = r.st
    /\ UNCHANGED <<NDEBUG, tables, conn, pc, db, dbAlloc, stAlloc>>

\* ------------------------------------------------- ThrowLastError
\* Connection::ThrowLastError on object c: throw Exception(GetAbi()).
ConnThrowRun(c) ==
    [conn |-> conn, db |-> db, result |-> "throw",
     exc |-> Connection_ThrowLastError(db, conn[c].h),
     calls |-> ExceptionCalls(Connection_GetAbi(c))]

ConnThrowLastError(c) ==
    /\ pc = "idle"
    /\ conn[c].live
    /\ LET r == ConnThrowRun(c)
       IN /\ conn' = r.conn
          /\ db' = r.db
    /\ UNCHANGED <<NDEBUG, tables, stmt, pc, dbAlloc, st, stAlloc>>

\* Statement::ThrowLastError on object s:
\* throw Exception(sqlite3_db_handle(GetAbi())).
StmtThrowRun(s) ==
    LET src == Statement_ErrorSource(st, stmt[s].h)
    IN [stmt |-> stmt, st |-> st, db |-> db, result |-> "throw",
        exc |-> Exception(db, src),
        calls |-> <<Ev("sqlite3_db_handle", Statement_GetAbi(s), src)>>
                  \o ExceptionCalls(src)]

StmtThrowLastError(s) ==
    /\ pc = "idle"
    /\ stmt[s].live
    /\ LET r == StmtThrowRun(s)
       IN /\ stmt' = r.stmt
          /\ st' = r.st
          /\ db' = r.db
    /\ UNCHANGED <<NDEBUG, tables, conn, pc, dbAlloc, stAlloc>>

Init ==
    /\ NDEBUG \in BOOLEAN
    /\ conn = [c \in ConnObjs |-> Dead]
    /\ stmt = [s \in StmtObjs |-> Dead]
    /\ pc = "idle"
    /\ db = [h \in DbHandles |-> [err |-> "SQLITE_OK", released |-> 0, closeCalls |-> 0]]
    /\ dbAlloc = 0
    /\ st = [h \in StHandles |->
               [db |-> Invalid, rows |-> 0, pos |-> 0, released |-> 0,
                finalizeCalls |-> 0, log |-> <<>>, vals |-> <<>>,
                effect |-> NoEffect]]
    /\ stAlloc = 0
    /\ tables = [h \in DbHandles |-> NoTable]

Next ==
    \/ \E c \in ConnObjs, ctor \in BOOLEAN, fn \in OpenFns, o \in OpenOutcomes :
          Open(c, ctor, fn, o)
    \/ \E c \in ConnObjs : ConnDefault(c)
    \/ \E c \in ConnObjs : ConnDestroy(c)
    \/ \E dst, src \in ConnObjs : ConnMoveConstruct(dst, src)
    \/ \E dst, src \in ConnObjs : ConnMoveAssign(dst, src)
    \/ \E a, b \in ConnObjs : ConnSwap(a, b)
    \/ \E s \in StmtObjs : StmtDefault(s)
    \/ \E s \in StmtObjs : StmtDestroy(s)
    \/ \E dst, src \in StmtObjs : StmtMoveConstruct(dst, src)
    \/ \E dst, src \in StmtObjs : StmtMoveAssign(dst, src)
    \/ \E s \in StmtObjs, c \in ConnObjs, fn \in PrepareFns :
          \E o \in PrepareOutcomes(Connection_GetAbi(c)) : Prepare(s, c, fn, o)
    \/ \E s \in StmtObjs : \E rc \in StepCodes(st, Statement_GetAbi(s)) : Step(s, rc)
    \/ \E s \in StmtObjs : \E rc \in StepCodes(st, Statement_GetAbi(s)) : Execute(s, rc)
    \/ \E s \in StmtObjs, fn \in ReaderFns, column \in Columns, w \in WCharSizes :
          Reader(s, fn, column, w)
    \/ \E c \in ConnObjs : ConnThrowLastError(c)
    \/ \E s \in StmtObjs : StmtThrowLastError(s)

Spec == Init /\ [][Next]_vars

\* ------------------------------------------------- the scenario engine
\* A native engine that runs a statement when it is stepped, on a database
\* of one table t(x INTEGER).  The SQL texts of the scenario:
\* CREATE TABLE t(x INTEGER), INSERT INTO t VALUES (v), SELECT x FROM t.
InsertValues == {42, 7}

SqlTexts ==
    {[kind |-> "create", val |-> 0], [kind |-> "select", val |-> 0]}
    \cup {[kind |-> "insert", val |-> v] : v \in InsertValues}

\* The native prepare on a database whose table is tb: CREATE compiles while
\* t does not exist, INSERT and SELECT while it does; nothing is executed.
\* A SELECT yields the rows stored when it was compiled.
EnginePrepare(tb, text) ==
    LET plan(rows, vals, effect) ==
           [rc |-> "SQLITE_OK", alloc |-> TRUE, rows |-> rows, vals |-> vals,
            effect |-> effect]
    IN CASE text.kind = "create" ->
               IF tb.exists THEN NoPlan("SQLITE_ERROR")
               ELSE plan(0, <<>>, [kind |-> "create", val |-> 0])
         [] text.kind = "insert" ->
               IF ~tb.exists THEN NoPlan("SQLITE_ERROR")
               ELSE plan(0, <<>>, [kind |-> "insert", val |-> text.val])
         [] OTHER ->
               IF ~tb.exists THEN NoPlan("SQLITE_ERROR")
               ELSE plan(Len(tb.rows), tb.rows, NoEffect)

\* The native step of plan p on a database whose table is tb: the result
\* code and the table afterwards.  A CREATE or INSERT runs here, and only here.
EngineStep(tb, p) ==
    CASE p.effect.kind = "create" ->
            IF tb.exists THEN [rc |-> "SQLITE_ERROR", tb |-> tb]
            ELSE [rc |-> "SQLITE_DONE", tb |-> [tb EXCEPT !.exists = TRUE]]
      [] p.effect.kind = "insert" ->
            IF ~tb.exists THEN [rc |-> "SQLITE_ERROR", tb |-> tb]
            ELSE [rc |-> "SQLITE_DONE",
                  tb |-> [tb EXCEPT !.rows = Append(@, p.effect.val)]]
      [] OTHER ->
            [rc |-> IF p.pos < p.rows THEN "SQLITE_ROW" ELSE "SQLITE_DONE",
             tb |-> tb]

\* What the engine answers when Statement s is stepped, and the tables then.
EngineAnswer(s) ==
    LET h == Statement_GetAbi(s)
    IN IF h = Invalid THEN [rc |-> "SQLITE_MISUSE", tables |-> tables]
       ELSE LET e == EngineStep(tables[st[h].db], st[h])
            IN [rc |-> e.rc, tables |-> [tables EXCEPT ![st[h].db] = e.tb]]

\* Statement::Prepare of a scenario text on Connection c.
E2EPrepareOutcome(c, text) ==
    IF Connection_GetAbi(c) = Invalid THEN NoPlan("SQLITE_MISUSE")
    ELSE EnginePrepare(tables[Connection_GetAbi(c)], text)

E2EPrepareEnabled(s, c, text) ==
    /\ pc = "idle"
    /\ stmt[s].live
    /\ conn[c].live
    /\ E2EPrepareOutcome(c, text).alloc => stAlloc < MaxPlans

E2EPrepare(s, c, fn, text) ==
    /\ E2EPrepareEnabled(s, c, text)
    /\ LET r == PrepareRun(s, c, fn, E2EPrepareOutcome(c, text))
       IN /\ stmt' = r.stmt
          /\ st' = r.st
          /\ stAlloc' = r.stAlloc
          /\ db' = r.db
          /\ pc' = r.pc
    /\ UNCHANGED <<NDEBUG, tables, conn, dbAlloc>>

\* Statement::Step against the scenario engine.
E2EStepRun(s) ==
    [tables |-> EngineAnswer(s).tables] @@ StepRun(s, EngineAnswer(s).rc)

E2EStepEnabled(s) ==
    /\ pc = "idle"
    /\ stmt[s].live
    /\ CanStep(s) \/ StepResult(EngineAnswer(s).rc) = "throw"
    /\ \A h \in DOMAIN tables : Len(EngineAnswer(s).tables[h].rows) <= MaxStored

E2EStep(s) ==
    /\ E2EStepEnabled(s)
    /\ LET r == E2EStepRun(s)
       IN /\ db' = r.db
          /\ st' = r.st
          /\ tables' = r.tables
    /\ UNCHANGED <<NDEBUG, conn, stmt, pc, dbAlloc, stAlloc>>

\* Statement::Execute against the scenario engine: the engine runs the
\* statement only if Execute steps it.
E2EExecuteRun(s) ==
    [tables |-> IF ExecuteCallsStep THEN EngineAnswer(s).tables ELSE tables]
    @@ ExecuteRun(s, EngineAnswer(s).rc)

E2EExecute(s) ==
    /\ E2EStepEnabled(s)
    /\ LET r == E2EExecuteRun(s)
       IN /\ db' = r.db
          /\ st' = r.st
          /\ pc' = r.pc
          /\ tables' = r.tables
    /\ UNCHANGED <<NDEBUG, conn, stmt, dbAlloc, stAlloc>>

\* The scenario runs: one connection is opened with Memory() / WideMemory(),
\* statements are prepared on it from the scenario texts, stepped, executed
\* and read.
InitE2E ==
    /\ NDEBUG \in BOOLEAN
    /\ conn = [c \in ConnObjs |-> Dead]
    /\ stmt = [s \in StmtObjs |-> Dead]
    /\ pc = "idle"
    /\ db = [h \in DbHandles |-> [err |-> "SQLITE_OK", released |-> 0, closeCalls |-> 0]]
    /\ dbAlloc = 0
    /\ st = [h \in 1..MaxPlans |->
               [db |-> Invalid, rows |-> 0, pos |-> 0, released |-> 0,
                finalizeCalls |-> 0, log |-> <<>>, vals |-> <<>>,
                effect |-> NoEffect]]
    /\ stAlloc = 0
    /\ tables = [h \in DbHandles |-> NoTable]

NextE2E ==
    \/ \E fn \in OpenFns :
          Open(1, TRUE, fn, [rc |-> "SQLITE_OK", alloc |-> TRUE])
    \/ \E s \in StmtObjs : StmtDefault(s)
    \/ \E s \in StmtObjs : StmtDestroy(s)
    \/ \E s \in StmtObjs, fn \in PrepareFns, text \in SqlTexts :
          E2EPrepare(s, 1, fn, text)
    \/ \E s \in StmtObjs : E2EStep(s)
    \/ \E s \in StmtObjs : E2EExecute(s)
    \/ \E s \in StmtObjs, fn \in ReaderFns, column \in Columns, w \in WCharSizes :
          Reader(s, fn, column, w)

SpecE2E == InitE2E /\ [][NextE2E]_vars

\* ================================================================ claims
HeldByConn(h) == \E c \in ConnObjs : conn[c].live /\ conn[c].h = h
HeldByStmt(h) == \E s \in StmtObjs : stmt[s].live /\ stmt[s].h = h

\* How often an operation called f on handle h.
CountCalls(calls, f, h) ==
    Cardinality({i \in 1..Len(calls) : calls[i].f = f /\ calls[i].h = h})

\* C1: the release action is invoked exactly once on every acquired handle
\* value, whatever moves, move assignments and swaps it went through: not at
\* all while a live Handle owns it, once and only once when none is left.
C1_ReleasedExactlyOnce ==
    /\ \A h \in DbHandles :
          db[h].released = IF h <= dbAlloc /\ ~HeldByConn(h) THEN 1 ELSE 0
    /\ \A h \in StHandles :
          st[h].released = IF h <= stAlloc /\ ~HeldByStmt(h) THEN 1 ELSE 0

\* A handle acquired by the first Connection is owned by the second one after
\* a move, and a statement handle likewise; both are still unreleased.
C1_Witness ==
    /\ conn[2].live /\ conn[2].h = 1 /\ db[1].released = 0
    /\ stmt[2].live /\ stmt[2].h = 1 /\ st[1].released = 0
    /\ dbAlloc = MaxDb /\ db[2].released = 1

\* C2: a non-sentinel value has at most one live owner: among the
\* Connections, among the Statements, and inside Open, where `this`, temp
\* and the other Connections are alive together when temp's scope ends.
C2_SingleOwner ==
    /\ \A a, b \in ConnObjs :
          (a # b /\ conn[a].live /\ conn[b].live /\ conn[a].h # Invalid)
             => conn[a].h # conn[b].h
    /\ \A a, b \in StmtObjs :
          (a # b /\ stmt[a].live /\ stmt[b].live /\ stmt[a].h # Invalid)
             => stmt[a].h # stmt[b].h
    /\ \A c \in ConnObjs, ctor \in BOOLEAN, fn \in OpenFns, o \in OpenOutcomes :
          OpenEnabled(c, ctor, o) =>
             LET r == OpenRun(c, ctor, fn, o)
             IN /\ r.temp # Invalid => r.temp # r.this
                /\ \A b \in ConnObjs :
                      (b # c /\ conn[b].live /\ conn[b].h # Invalid)
                         => conn[b].h \notin {r.this, r.temp}

\* Two Connections own the two handles crosswise (a swap or moves acted), and
\* a further Open on an open Connection is about to run.
C2_Witness ==
    /\ conn[1].live /\ conn[1].h = 2
    /\ conn[2].live /\ conn[2].h = 1
    /\ stmt[1].live /\ stmt[2].live /\ stmt[2].h = 1

\* C3: by the time no owner of it is left, a connection handle was passed to
\* sqlite3_close exactly once and a statement handle to sqlite3_finalize
\* exactly once, in either build.
C3_NativeReleaseOnce ==
    /\ \A h \in DbHandles :
          db[h].closeCalls = IF h <= dbAlloc /\ ~HeldByConn(h) THEN 1 ELSE 0
    /\ \A h \in StHandles :
          st[h].finalizeCalls = IF h <= stAlloc /\ ~HeldByStmt(h) THEN 1 ELSE 0

\* C4: an Open (either overload, on an object or constructing one) whose
\* native open does not succeed raises, and leaves every Connection,
\* the one it was called on included, owning what it owned before.
C4_FailedOpenLeavesConnection ==
    \A c \in ConnObjs, ctor \in BOOLEAN, fn \in OpenFns, o \in OpenOutcomes :
       (OpenEnabled(c, ctor, o) /\ o.rc # "SQLITE_OK") =>
          LET r == OpenRun(c, ctor, fn, o)
          IN /\ r.result = "throw"
             /\ r.conn = conn
             /\ r.this = conn[c].h
             /\ Handle_bool(r.this) = Connection_bool(c)

\* An open Connection on which an Open that fails with a handle can run,
\* after an earlier Open already failed with a handle.
C4_Witness ==
    \E c \in ConnObjs :
       /\ conn[c].live /\ conn[c].h = 2
       /\ db[1].err = "SQLITE_CANTOPEN" /\ db[1].released = 1
       /\ OpenEnabled(c, FALSE, [rc |-> "SQLITE_NOMEM", alloc |-> FALSE])

\* C5: a handle the native open wrote although it failed is passed to
\* sqlite3_close exactly once before Open's failure reaches the caller.
C5_ErroredHandleClosed ==
    \A c \in ConnObjs, ctor \in BOOLEAN, fn \in OpenFns, o \in OpenOutcomes :
       (OpenEnabled(c, ctor, o) /\ o.rc # "SQLITE_OK" /\ o.alloc) =>
          LET r == OpenRun(c, ctor, fn, o)
          IN /\ CountCalls(r.calls, "sqlite3_close", r.opened) = 1
             /\ r.db[r.opened].closeCalls = 1

\* C6: Step calls sqlite3_step once, on its own handle; row returns true,
\* done returns false, and every other code raises the failure read from the
\* connection the engine names as the statement's owner.
C6_StepThreeWay ==
    \A s \in StmtObjs :
       \A rc \in StepCodes(st, Statement_GetAbi(s)) :
          StepEnabled(s, rc) =>
             LET r == StepRun(s, rc)
                 h == stmt[s].h
                 owner == IF h = Invalid THEN Invalid ELSE st[h].db
             IN /\ Len(SelectSeq(r.calls, LAMBDA e : e.f = "sqlite3_step")) = 1
                /\ CountCalls(r.calls, "sqlite3_step", h) = 1
                /\ rc = "SQLITE_ROW" => r.result = "true" /\ r.exc = NoExc
                /\ rc = "SQLITE_DONE" => r.result = "false" /\ r.exc = NoExc
                /\ rc \notin {"SQLITE_ROW", "SQLITE_DONE"} =>
                      /\ r.result = "throw"
                      /\ r.exc.from = owner
                      /\ owner # Invalid => r.exc.Result = rc
                      /\ r.exc.Message = ErrStr(r.exc.Result)

\* A statement that returned from Step and was then answered busy: its
\* connection carries the busy error.
C6_Witness ==
    \E h \in StHandles :
       /\ HeldByStmt(h)
       /\ Len(st[h].log) >= 1
       /\ st[h].db # Invalid
       /\ db[st[h].db].err = "SQLITE_BUSY"

\* C7: the values Step returned on a statement of N rows are true N times
\* and then false: the (N+1)-th return is the first false.  (A busy answer
\* returns nothing and leaves the plan where it was.)
C7_RowsThenDone ==
    \A h \in StHandles :
       \A i \in 1..Len(st[h].log) :
          /\ i <= st[h].rows => st[h].log[i] = "true"
          /\ i = st[h].rows + 1 => st[h].log[i] = "false"

\* A statement of MaxRows rows stepped to its end.
C7_Witness ==
    \E h \in StHandles :
       /\ st[h].rows = MaxRows
       /\ MaxRows >= 1
       /\ Len(st[h].log) = MaxRows + 1
       /\ st[h].log[MaxRows + 1] = "false"

\* C8: Execute calls Step exactly once, and when that Step makes a row
\* available it signals a contract violation instead of returning.
C8_ExecuteStepsOnce ==
    \A s \in StmtObjs :
       \A rc \in StepCodes(st, Statement_GetAbi(s)) :
          StepEnabled(s, rc) =>
             LET r == ExecuteRun(s, rc)
             IN /\ CountCalls(r.calls, "sqlite3_step", stmt[s].h) = 1
                /\ rc = "SQLITE_ROW" => r.result = "abort"

\* C9: a Prepare (either overload) on an open Connection whose native prepare
\* does not succeed raises the failure read from the Connection's handle: its
\* code is the non-success code, its message is not empty.
C9_FailedPrepareRaisesFromConnection ==
    \A s \in StmtObjs, c \in ConnObjs, fn \in PrepareFns :
       \A o \in PrepareOutcomes(Connection_GetAbi(c)) :
          (PrepareEnabled(s, c, o) /\ Connection_bool(c) /\ o.rc # "SQLITE_OK") =>
             LET r == PrepareRun(s, c, fn, o)
             IN /\ r.result = "throw"
                /\ r.exc.from = conn[c].h
                /\ r.exc.Result = o.rc
                /\ r.exc.Result # "SQLITE_OK"
                /\ r.exc.Message # ""
                /\ CountCalls(r.calls, "sqlite3_extended_errcode", conn[c].h) = 1
                /\ CountCalls(r.calls, "sqlite3_errmsg", conn[c].h) = 1

\* An open Connection whose last Prepare failed, with a live Statement that
\* can prepare on it again.
C9_Witness ==
    \E c \in ConnObjs, s \in StmtObjs :
       /\ conn[c].live /\ conn[c].h # Invalid
       /\ db[conn[c].h].err = "SQLITE_ERROR"
       /\ PrepareEnabled(s, c, NoPlan("SQLITE_ERROR"))

\* C10: a Prepare with a Connection that is not open is stopped by the
\* precondition check, and the native prepare is never called with the
\* sentinel connection handle.
C10_PrepareChecksConnection ==
    \A s \in StmtObjs, c \in ConnObjs, fn \in PrepareFns :
       \A o \in PrepareOutcomes(Connection_GetAbi(c)) :
          (PrepareEnabled(s, c, o) /\ ~Connection_bool(c)) =>
             LET r == PrepareRun(s, c, fn, o)
             IN /\ r.result = "abort"
                /\ CountCalls(r.calls, fn, Invalid) = 0

\* C12: a Connection converts to true exactly when its handle is not the
\* sentinel, and a handle reported open was handed out by the engine and was
\* neither released nor passed to sqlite3_close.  A default-constructed
\* Connection is closed, a successful Open (or Memory / WideMemory) leaves it
\* open on the new handle, a failed Open leaves its boolean state as it was.
C12_OpenIffHandle ==
    /\ \A c \in ConnObjs :
          conn[c].live =>
             /\ Connection_bool(c) <=> conn[c].h # Invalid
             /\ Connection_bool(c) =>
                   /\ conn[c].h \in 1..dbAlloc
                   /\ db[conn[c].h].released = 0
                   /\ db[conn[c].h].closeCalls = 0
    /\ ~Handle_bool(Empty.h)
    /\ \A c \in ConnObjs, ctor \in BOOLEAN, fn \in OpenFns, o \in OpenOutcomes :
          OpenEnabled(c, ctor, o) =>
             LET r == OpenRun(c, ctor, fn, o)
             IN /\ o.rc = "SQLITE_OK" =>
                      /\ r.conn[c].live
                      /\ Handle_bool(r.conn[c].h)
                      /\ r.conn[c].h = r.opened
                /\ o.rc # "SQLITE_OK" =>
                      Handle_bool(r.conn[c].h) = Handle_bool(conn[c].h)

\* An open Connection next to a closed one, after an Open that failed.
C12_Witness ==
    /\ conn[1].live /\ ~Connection_bool(1)
    /\ conn[2].live /\ Connection_bool(2)
    /\ \E h \in DbHandles : db[h].err = "SQLITE_CANTOPEN"

\* C14: Connection::ThrowLastError always raises, for an open and a closed
\* Connection: the failure carries the extended error code and the message
\* the engine holds for the Connection's current handle (out of memory for
\* the sentinel), and the Connections are left as they were.
C14_ThrowLastErrorRaises ==
    \A c \in ConnObjs :
       conn[c].live =>
          LET r == ConnThrowRun(c)
              h == conn[c].h
              code == IF h = Invalid THEN "SQLITE_NOMEM" ELSE db[h].err
          IN /\ r.result = "throw"
             /\ r.exc.from = h
             /\ r.exc.Result = code
             /\ r.exc.Message = ErrStr(code)
             /\ r.conn = conn
             /\ r.db = db

\* An open Connection whose engine holds an error, next to a closed one.
C14_Witness ==
    \E a, b \in ConnObjs :
       /\ conn[a].live /\ conn[a].h # Invalid
       /\ db[conn[a].h].err = "SQLITE_BUSY"
       /\ conn[b].live /\ conn[b].h = Invalid

\* C11: against an engine that runs a statement only when it is stepped, an
\* Execute of a prepared CREATE TABLE leaves the table created, and an
\* Execute of a prepared INSERT leaves its row stored, visible to the
\* statements prepared afterwards: the INSERT then compiles, and the SELECT
\* yields the stored value, Step() = true with GetInt(0) = 42, then false.
C11_ExecuteTakesEffect ==
    \A s \in StmtObjs :
       LET h == stmt[s].h
       IN (E2EStepEnabled(s) /\ h # Invalid) =>
             LET d == st[h].db
                 r == E2EExecuteRun(s)
                 kind == st[h].effect.kind
             IN /\ (kind = "create" /\ ~tables[d].exists) =>
                      /\ r.result = "return"
                      /\ r.tables[d].exists
                      /\ EnginePrepare(r.tables[d],
                            [kind |-> "insert", val |-> 42]).rc = "SQLITE_OK"
                /\ (kind = "insert" /\ tables[d].exists) =>
                      /\ r.result = "return"
                      /\ r.tables[d].rows = Append(tables[d].rows, st[h].effect.val)
                      /\ EnginePrepare(r.tables[d],
                            [kind |-> "select", val |-> 0]).vals
                            = Append(tables[d].rows, st[h].effect.val)
                /\ (kind = "none" /\ st[h].vals = <<42>>) =>
                      /\ st[h].log = <<"true">> =>
                            ReaderRun(s, "GetInt", 0, 2).value = 42
                      /\ Len(st[h].log) = 2 => st[h].log = <<"true", "false">>

\* C13: a reader call after the k-th Step() that returned true yields the
\* engine's value of row k for the column asked, in the reader's form, for
\* every reader, column and k; nothing of row k-1 is returned, and the call
\* leaves the Statement's handle and the current row as they were.
C13_ReaderReadsCurrentRow ==
    \A s \in StmtObjs :
       LET h == stmt[s].h
       IN (stmt[s].live /\ h # Invalid /\ st[h].pos >= 1
           /\ st[h].pos <= st[h].rows) =>
             LET k == st[h].pos
                 v(column) == st[h].vals[k] + column
             IN \A column \in Columns, w \in WCharSizes :
                   /\ ReaderRun(s, "GetInt", column, w).value = v(column)
                   /\ ReaderRun(s, "GetString", column, w).value
                         = [enc |-> "utf8", of |-> v(column)]
                   /\ ReaderRun(s, "GetWideString", column, w).value
                         = [enc |-> "utf16", of |-> v(column)]
                   /\ ReaderRun(s, "GetStringLength", column, w).value
                         = Digits(v(column))
                   /\ ReaderRun(s, "GetWideStringLength", column, w).value
                         = (2 * Digits(v(column))) \div w
                   /\ \A fn \in ReaderFns :
                         /\ ReaderRun(s, fn, column, w).stmt = stmt
                         /\ ReaderRun(s, fn, column, w).st = st
                         /\ ReaderRun(s, fn, column, w).result = "return"

\* A Statement on the second of two rows that differ, both steps having
\* returned true.
C13_Witness ==
    \E s \in StmtObjs :
       /\ stmt[s].live /\ stmt[s].h # Invalid
       /\ st[stmt[s].h].pos = 2
       /\ st[stmt[s].h].log = <<"true", "true">>
       /\ st[stmt[s].h].vals[1] # st[stmt[s].h].vals[2]

\* Whether some call of f on handle h comes before the first call of g.
CallBefore(calls, f, h, g) ==
    \E i, j \in 1..Len(calls) :
       /\ i < j
       /\ calls[i].f = f /\ calls[i].h = h
       /\ calls[j].f = g
       /\ \A k \in 1..(j - 1) : calls[k].f # g

\* What destroying a Statement that owns h calls.
StatementDestroyCalls(h) ==
    Handle_Close(h, StatementHandleTraits_Close(h))

\* C15: a Prepare on a Statement that owns a plan passes the old plan to
\* sqlite3_finalize exactly once, before the native prepare writes the slot;
\* after a successful one the Statement owns the new plan only, and the old
\* plan, finalized once, is not finalized again when the Statement goes.
C15_RePrepareFinalizesOld ==
    \A s \in StmtObjs, c \in ConnObjs, fn \in PrepareFns :
       \A o \in PrepareOutcomes(Connection_GetAbi(c)) :
          (PrepareEnabled(s, c, o) /\ Statement_bool(s)) =>
             LET r == PrepareRun(s, c, fn, o)
                 old == stmt[s].h
             IN /\ CountCalls(r.calls, "StatementHandleTraits::Close", old) = 1
                /\ CountCalls(r.calls, "sqlite3_finalize", old) = 1
                /\ CallBefore(r.calls, "sqlite3_finalize", old, fn)
                /\ r.st[old].finalizeCalls = 1
                /\ (o.rc = "SQLITE_OK" /\ o.alloc) =>
                      /\ r.stmt[s].h = r.stAlloc
                      /\ r.stmt[s].h # old
                      /\ CountCalls(StatementDestroyCalls(r.stmt[s].h),
                                    "sqlite3_finalize", old) = 0

\* C16: a successful Open on an open Connection installs the new handle and
\* releases the old one exactly once, to sqlite3_close, when the temporary
\* goes at the end of Open: after the native open and the swap; the
\* Connection holds a handle throughout.
C16_ReopenReleasesOld ==
    \A c \in ConnObjs, fn \in OpenFns, o \in OpenOutcomes :
       (OpenEnabled(c, FALSE, o) /\ Connection_bool(c) /\ o.rc = "SQLITE_OK") =>
          LET r == OpenRun(c, FALSE, fn, o)
              old == conn[c].h
          IN /\ r.conn[c].h = r.opened
             /\ r.opened # old
             /\ r.temp = old
             /\ Handle_bool(r.this)
             /\ CountCalls(r.calls, "ConnectionHandleTraits::Close", old) = 1
             /\ CallBefore(r.calls, fn, Invalid, "ConnectionHandleTraits::Close")
             /\ CountCalls(r.calls, "sqlite3_close", old) = 1
             /\ r.db[old].closeCalls = 1

\* The names of the release actions and of the native releases.
ReleaseCalls ==
    {"ConnectionHandleTraits::Close", "StatementHandleTraits::Close",
     "sqlite3_close", "sqlite3_finalize"}

NoRelease(calls) ==
    \A i \in 1..Len(calls) : calls[i].f \notin ReleaseCalls

\* C17: Step, Execute, GetAbi, ThrowLastError and the readers leave the
\* handle of the Statement and of its Connection as they were and invoke no
\* release, whether they return or raise; after a Step that raised the
\* Statement owns the same plan, and its destruction passes that plan to
\* sqlite3_finalize exactly once.
C17_StatementOperationsKeepHandle ==
    \A s \in StmtObjs :
       stmt[s].live =>
          LET h == stmt[s].h
          IN /\ Statement_GetAbi(s) = h
             /\ \A rc \in StepCodes(st, h) :
                   StepEnabled(s, rc) =>
                      /\ NoRelease(StepRun(s, rc).calls)
                      /\ NoRelease(ExecuteRun(s, rc).calls)
                      /\ \A g \in DOMAIN st :
                            /\ StepRun(s, rc).st[g].released = st[g].released
                            /\ ExecuteRun(s, rc).st[g].released = st[g].released
                      /\ \A g \in DOMAIN db :
                            StepRun(s, rc).db[g].released = db[g].released
                      /\ (StepRun(s, rc).result = "throw" /\ h # Invalid) =>
                            /\ StepRun(s, rc).st[h].db = st[h].db
                            /\ CountCalls(StatementDestroyCalls(h),
                                          "sqlite3_finalize", h) = 1
             /\ NoRelease(StmtThrowRun(s).calls)
             /\ StmtThrowRun(s).stmt = stmt
             /\ StmtThrowRun(s).st = st
             /\ \A fn \in ReaderFns, column \in Columns, w \in WCharSizes :
                   /\ NoRelease(ReaderRun(s, fn, column, w).calls)
                   /\ ReaderRun(s, fn, column, w).stmt = stmt
                   /\ ReaderRun(s, fn, column, w).st = st

\* C18: a Prepare that fails on a Statement that owns a plan has passed the
\* old plan to sqlite3_finalize exactly once; the Statement is empty
\* afterwards, and destroying it finalizes nothing more.
C18_FailedPrepareEmptiesStatement ==
    \A s \in StmtObjs, c \in ConnObjs, fn \in PrepareFns :
       \A o \in PrepareOutcomes(Connection_GetAbi(c)) :
          (PrepareEnabled(s, c, o) /\ Statement_bool(s) /\ o.rc # "SQLITE_OK") =>
             LET r == PrepareRun(s, c, fn, o)
                 old == stmt[s].h
             IN /\ r.result = "throw"
                /\ r.stmt[s].h = Invalid
                /\ ~Handle_bool(r.stmt[s].h)
                /\ CountCalls(r.calls, "StatementHandleTraits::Close", old) = 1
                /\ StatementDestroyCalls(r.stmt[s].h) = <<>>
                /\ CountCalls(r.calls, "sqlite3_finalize", old) = 1
                /\ r.st[old].finalizeCalls = 1

\* C19: every failure is read from a handle that is still live: in a failed
\* Open it is read from the temporary's handle before the temporary releases
\* it; in a failed Step or Prepare it is read from a connection handle that
\* was not released and not passed to sqlite3_close.
C19_SnapshotFromLiveHandle ==
    /\ \A c \in ConnObjs, ctor \in BOOLEAN, fn \in OpenFns, o \in OpenOutcomes :
          (OpenEnabled(c, ctor, o) /\ o.rc # "SQLITE_OK" /\ o.alloc) =>
             LET r == OpenRun(c, ctor, fn, o)
             IN /\ r.exc.from = r.opened
                /\ CallBefore(r.calls, "sqlite3_extended_errcode", r.opened,
                              "ConnectionHandleTraits::Close")
                /\ CallBefore(r.calls, "sqlite3_errmsg", r.opened,
                              "ConnectionHandleTraits::Close")
                /\ db[r.opened].released = 0
    /\ \A s \in StmtObjs, c \in ConnObjs, fn \in PrepareFns :
          \A o \in PrepareOutcomes(Connection_GetAbi(c)) :
             (PrepareEnabled(s, c, o) /\ Connection_bool(c) /\ o.rc # "SQLITE_OK") =>
                LET r == PrepareRun(s, c, fn, o)
                IN /\ db[r.exc.from].released = 0
                   /\ db[r.exc.from].closeCalls = 0
    /\ \A s \in StmtObjs :
          \A rc \in StepCodes(st, Statement_GetAbi(s)) :
             (StepEnabled(s, rc) /\ StepRun(s, rc).result = "throw"
              /\ StepRun(s, rc).exc.from # Invalid) =>
                /\ db[StepRun(s, rc).exc.from].released = 0
                /\ db[StepRun(s, rc).exc.from].closeCalls = 0

\* C20: when the release action of a connection handle has run, no live
\* Statement owns a plan prepared on that handle, so that no Step, reader
\* call or finalize meets a plan whose connection was released.
C20_NoPlanOnReleasedConnection ==
    \A s \in StmtObjs :
       (stmt[s].live /\ stmt[s].h # Invalid /\ st[stmt[s].h].db # Invalid) =>
          db[st[stmt[s].h].db].released = 0
====
